---- MODULE Spec2Model ----
(***************************************************************************)
(* A model of the console component: the command registry and resolver of  *)
(* console/application.py (add, get, find, find_namespace,                  *)
(* get_abbreviations) and the token binder of console/input/argv_input.py   *)
(* (parse and the option/argument paths).                                   *)
(*                                                                          *)
(* A Python string is modelled as the sequence of its one-character         *)
(* strings, so that slicing, find() and prefix tests are computed, e.g.     *)
(* "db:m" is <<"d","b",":","m">> and '' is <<>>.  Python's None is the      *)
(* model value None, or NoneStr where the code holds a string or None.      *)
(***************************************************************************)
EXTENDS Integers, Sequences, FiniteSets, TLC

VARIABLES
    commands,       \* Application.__commands: key (name or alias) -> command
    want_helps,     \* Application.__want_helps
    help_target,    \* the command the registered HelpCommand was set to describe
    attached,       \* the commands whose _application is this Application
    ret,            \* the last call on the Application and what it returned or raised
    tokens,         \* ArgvInput.__tokens, the list __parsed aliases once parse() ran
    definition,     \* Input.definition
    arguments,      \* Input.arguments: argument name -> value
    options,        \* Input.options: option name -> value
    parse_options,  \* the local parse_options of ArgvInput.parse
    pc,             \* where the ArgvInput is: constructed, parsing, parsed, raised
    error,          \* the exception parse() raised, None when it raised none
    step,           \* the token the last iteration of parse() read, and the state it read it in
    calls,          \* the number of parse() calls made on the ArgvInput
    bound1,         \* the bindings and the exception the first parse() call ended with
    scan,           \* the last get_parameter_option call: its arguments, the tokens it found, its result
    cmd_application,                \* Command._application: whether it is an Application (not None)
    cmd_definition,                 \* Command._definition: its arguments in order, its option names
    application_definition_merged,  \* Command._application_definition_merged
    synopsis,                       \* Command._synopsis: the definition it was built from, <<>> before
    native,                         \* the definition the command was constructed or last set with
    merges,                         \* the merges applied to _definition since it was set
    ignore_validation_errors,       \* Command._ignore_validation_errors_
    cmd_ret,                        \* the last call on the Command, and the definition run() handed to bind
    catch_exceptions,               \* Application.__catch_exceptions
    auto_exit,                      \* Application.__auto_exit
    run_ret                         \* the last Application.run call: how it ended, what it rendered

appvars == <<commands, want_helps, help_target, attached, ret>>
inputvars == <<tokens, definition, arguments, options, parse_options, pc, error, step,
               calls, bound1, scan>>
cmdvars == <<cmd_application, cmd_definition, application_definition_merged, synopsis,
             native, merges, ignore_validation_errors, cmd_ret>>
runvars == <<catch_exceptions, auto_exit, run_ret>>
vars == <<commands, want_helps, help_target, attached, ret,
          tokens, definition, arguments, options, parse_options, pc, error, step,
          calls, bound1, scan,
          cmd_application, cmd_definition, application_definition_merged, synopsis,
          native, merges, ignore_validation_errors, cmd_ret,
          catch_exceptions, auto_exit, run_ret>>

(***************************************************************************)
(* Strings                                                                 *)
(***************************************************************************)

\* s.startswith(p), and s.find(p) == 0
startswith(s, p) == Len(p) <= Len(s) /\ SubSeq(s, 1, Len(p)) = p

\* s.find(ch) for a one-character ch: the 0-based position of its first
\* occurrence, -1 when there is none
str_find(s, ch) ==
    IF \E i \in 1..Len(s) : s[i] = ch
    THEN (CHOOSE i \in 1..Len(s) : s[i] = ch /\ \A j \in 1..(i - 1) : s[j] # ch) - 1
    ELSE -1

\* s[pos:] and s[:pos] for a 0-based pos within the string
\* s.find(sub) for a text sub: the 0-based index of its first occurrence, or -1
str_find_sub(s, sub) ==
    LET at(i) == i + Len(sub) <= Len(s) /\ \A k \in 1..Len(sub) : s[i + k] = sub[k]
        S     == {i \in 0..Len(s) : at(i)}
    IN  IF S = {} THEN -1 ELSE CHOOSE i \in S : \A j \in S : i <= j

str_from(s, pos) == SubSeq(s, pos + 1, Len(s))
str_upto(s, pos) == SubSeq(s, 1, pos)

\* s.split(ch)
RECURSIVE split(_, _)
split(s, ch) ==
    LET pos == str_find(s, ch) IN
    IF pos = -1 THEN <<s>>
    ELSE <<str_upto(s, pos)>> \o split(str_from(s, pos + 1), ch)

\* ch.join(parts)
RECURSIVE join(_, _)
join(parts, ch) ==
    IF Len(parts) = 0 THEN <<>>
    ELSE IF Len(parts) = 1 THEN parts[1]
    ELSE parts[1] \o <<ch>> \o join(Tail(parts), ch)

(***************************************************************************)
(* The commands that can be registered.  A command is known by its id; its *)
(* name, aliases and is_enabled() answer are fixed at construction.        *)
(***************************************************************************)

s_help       == <<"h","e","l","p">>
s_list       == <<"l","i","s","t">>
s_db_migrate == <<"d","b",":","m","i","g","r","a","t","e">>
s_db_seed    == <<"d","b",":","s","e","e","d">>
s_a_b        == <<"a",":","b">>
s_x          == <<"x">>
s_li         == <<"l","i">>
s_zed        == <<"z","e","d">>
s_off        == <<"o","f","f">>
s_p_q_go     == <<"p",":","q",":","g","o">>
s_r_s_go     == <<"r",":","s",":","g","o">>

None == "None"

\* None where the code holds a string or None
NoneStr == <<"None">>

\* Application.get_default_commands: HelpCommand and ListCommand
DefaultCommands == <<"help", "list">>

CommandIds == {"help", "list", "migrate", "seed", "ab", "li", "zed", "off"}

\* commands whose namespace has two segments
DeepCommandIds == {"pqgo", "rsgo"}

get_name(c) ==
    CASE c = "help"    -> s_help
      [] c = "list"    -> s_list
      [] c = "migrate" -> s_db_migrate
      [] c = "seed"    -> s_db_seed
      [] c = "ab"      -> s_a_b
      [] c = "li"      -> s_li
      [] c = "zed"     -> s_zed
      [] c = "off"     -> s_off
      [] c = "pqgo"    -> s_p_q_go
      [] c = "rsgo"    -> s_r_s_go

get_aliases(c) ==
    CASE c = "ab"  -> <<s_x>>
      [] c = "zed" -> <<s_a_b>>
      [] OTHER     -> <<>>

is_enabled(c) == c # "off"

\* only a HelpCommand has set_command
has_set_command(c) == c = "help"

(***************************************************************************)
(* Application: registry                                                   *)
(***************************************************************************)

\* d[k] = v on a dict
dict_set(d, k, v) == [x \in (DOMAIN d) \cup {k} |-> IF x = k THEN v ELSE d[x]]

\* d.values(), as a set
dict_values(d) == {d[k] : k \in DOMAIN d}

RECURSIVE add_aliases(_, _, _)
add_aliases(cmds, c, aliases) ==
    IF Len(aliases) = 0 THEN cmds
    ELSE add_aliases(dict_set(cmds, Head(aliases), c), c, Tail(aliases))

\* add keeping the entry a key already has
add_no_overwrite(cmds, att, c) ==
    IF ~is_enabled(c)
    THEN [commands |-> cmds, attached |-> att \ {c}, cmd |-> None]
    ELSE LET added == add_aliases(dict_set(<<>>, get_name(c), c), c, get_aliases(c)) IN
         [commands |-> [k \in DOMAIN added \cup DOMAIN cmds |->
                           IF k \in DOMAIN cmds THEN cmds[k] ELSE added[k]],
          attached |-> att \cup {c},
          cmd      |-> c]

\* Application.add: the registry after add(c), the attached commands, the return
add(cmds, att, c) ==
    IF ~is_enabled(c)
    THEN [commands |-> cmds, attached |-> att \ {c}, cmd |-> None]
    ELSE [commands |-> add_aliases(dict_set(cmds, get_name(c), c), c, get_aliases(c)),
          attached |-> att \cup {c},
          cmd      |-> c]

\* Application.extract_namespace(name), limit=None
extract_namespace(name) ==
    LET parts == split(name, ":") IN
    join(SubSeq(parts, 1, Len(parts) - 1), ":")

\* every left-anchored prefix of name, of length 1..len(name)
prefixes(name) == {SubSeq(name, 1, l) : l \in 1..Len(name)}

\* get_abbreviations without its second loop (lines 370-371), which maps each
\* full name back to itself alone
get_abbreviations_no_override(names) ==
    [a \in (UNION {prefixes(n) : n \in names}) \cup names |->
        {n \in names : startswith(n, a)}]

\* Application.get_abbreviations(names): abbreviation -> the names it abbreviates.
\* names is duplicate-free at every call site (list(set(...))); the order of a
\* list of the table is the set's iteration order, and only its length and its
\* sole element are read, so a list is modelled as the set of its elements.
get_abbreviations(names) ==
    [a \in (UNION {prefixes(n) : n \in names}) \cup names |->
        IF a \in names THEN {a} ELSE {n \in names : startswith(n, a)}]

\* Application.get_namespaces
get_namespaces(cmds) ==
    UNION {{extract_namespace(get_name(c))}
             \cup {extract_namespace(get_aliases(c)[i]) : i \in 1..Len(get_aliases(c))}
           : c \in dict_values(cmds)}

\* Application.get(name) without the reset of __want_helps
get_keep_want_helps(app, name) ==
    IF name \notin DOMAIN app.commands
    THEN [kind |-> "not_exist", cmd |-> None, app |-> app]
    ELSE IF app.want_helps
    THEN IF s_help \notin DOMAIN app.commands
         THEN [kind |-> "not_exist", cmd |-> None, app |-> app]
         ELSE IF ~has_set_command(app.commands[s_help])
         THEN [kind |-> "attribute_error", cmd |-> None, app |-> app]
         ELSE [kind |-> "ok", cmd |-> app.commands[s_help],
               app |-> [app EXCEPT !.help_target = app.commands[name]]]
    ELSE [kind |-> "ok", cmd |-> app.commands[name], app |-> app]

\* Application.get(name) on an application [commands, want_helps, help_target]
get(app, name) ==
    IF name \notin DOMAIN app.commands
    THEN [kind |-> "not_exist", cmd |-> None, app |-> app]
    ELSE IF app.want_helps
    THEN LET cleared == [app EXCEPT !.want_helps = FALSE] IN
         IF s_help \notin DOMAIN app.commands
         THEN [kind |-> "not_exist", cmd |-> None, app |-> cleared]
         ELSE IF ~has_set_command(app.commands[s_help])
         THEN [kind |-> "attribute_error", cmd |-> None, app |-> cleared]
         ELSE [kind |-> "ok", cmd |-> app.commands[s_help],
               app |-> [cleared EXCEPT !.help_target = app.commands[name]]]
    ELSE [kind |-> "ok", cmd |-> app.commands[name], app |-> app]

\* the i-th parts (0-based) of the known namespaces, without the empty ones
namespace_parts(cmds, i) ==
    {split(n, ":")[i + 1] : n \in {m \in get_namespaces(cmds) : Len(split(m, ":")) > i}}
        \ {<<>>}

\* Application.find_namespace: the loop from part i on, found being the parts
\* resolved so far
RECURSIVE find_namespace_from(_, _, _, _)
find_namespace_from(cmds, parts, i, found) ==
    IF i >= Len(parts) THEN [kind |-> "ok", namespace |-> join(found, ":")]
    ELSE LET part    == parts[i + 1]
             abbrevs == get_abbreviations(namespace_parts(cmds, i))
         IN  IF part \notin DOMAIN abbrevs
             THEN [kind |-> "namespace_not_found", namespace |-> <<>>]
             ELSE IF Cardinality(abbrevs[part]) > 1
             THEN [kind |-> "namespace_ambiguous", namespace |-> <<>>]
             ELSE find_namespace_from(cmds, parts, i + 1,
                      Append(found, CHOOSE n \in abbrevs[part] : TRUE))

\* find_namespace without abbreviation: a part must be a full namespace part
find_namespace_exact(cmds, namespace) ==
    IF \A i \in 1..Len(split(namespace, ":")) :
           split(namespace, ":")[i] \in namespace_parts(cmds, i - 1)
    THEN [kind |-> "ok", namespace |-> namespace]
    ELSE [kind |-> "namespace_not_found", namespace |-> <<>>]

\* Application.find_namespace(namespace)
find_namespace(cmds, namespace) ==
    find_namespace_from(cmds, split(namespace, ":"), 0, <<>>)

\* find's filter of the command names with the test on an empty namespace
\* dropped: a colon-less search then runs over every command name
find_commands_any_namespace(cmds, namespace) ==
    {get_name(c) : c \in {d \in dict_values(cmds) :
        \/ extract_namespace(get_name(d)) = namespace
        \/ startswith(extract_namespace(get_name(d)), namespace)}}

\* Application.find, lines 301-305: the names of the commands the search runs over
find_commands(cmds, namespace) ==
    {get_name(c) : c \in {d \in dict_values(cmds) :
        \/ extract_namespace(get_name(d)) = namespace
        \/ namespace # <<>> /\ startswith(extract_namespace(get_name(d)), namespace)}}

\* Application.find, lines 317-322: the aliases the search runs over
find_aliases(cmds, namespace) ==
    UNION {{get_aliases(c)[i] : i \in {j \in 1..Len(get_aliases(c)) :
                \/ extract_namespace(get_aliases(c)[j]) = get_aliases(c)[j]
                \/ namespace # <<>>
                   /\ startswith(extract_namespace(get_aliases(c)[j]), namespace)}}
           : c \in dict_values(cmds)}

raised(kind, app) == [kind |-> kind, key |-> NoneStr, cmd |-> None, app |-> app]

\* get(key), as find returns it
find_get(app, key) ==
    LET g == get(app, key) IN [kind |-> g.kind, key |-> key, cmd |-> g.cmd, app |-> g.app]

\* find's lookup with the test for several matches (lines 311-314) dropped: the
\* first match is returned
find_lookup_first_match(app, abbrevs, aliases, search_name) ==
    IF search_name \in DOMAIN abbrevs
    THEN find_get(app, CHOOSE n \in abbrevs[search_name] : TRUE)
    ELSE IF search_name \notin DOMAIN aliases
    THEN raised("not_defined", app)
    ELSE find_get(app, CHOOSE n \in aliases[search_name] : TRUE)

\* Application.find, lines 307-343: the lookup of the search name in the table
\* of the command names and then in the table of the aliases
find_lookup(app, abbrevs, aliases, search_name) ==
    IF search_name \in DOMAIN abbrevs /\ Cardinality(abbrevs[search_name]) = 1
    THEN find_get(app, CHOOSE n \in abbrevs[search_name] : TRUE)
    ELSE IF search_name \in DOMAIN abbrevs /\ Cardinality(abbrevs[search_name]) > 1
    THEN raised("ambiguous", app)
    ELSE IF search_name \notin DOMAIN aliases
    THEN raised("not_defined", app)
    ELSE IF Cardinality(aliases[search_name]) > 1
    THEN raised("ambiguous", app)
    ELSE find_get(app, CHOOSE n \in aliases[search_name] : TRUE)

\* Application.find, from line 300 on, with the namespace and search name resolved
find_name(app, namespace, search_name) ==
    find_lookup(app, get_abbreviations(find_commands(app.commands, namespace)),
                get_abbreviations(find_aliases(app.commands, namespace)), search_name)

\* Application.find(name)
find(app, name) ==
    LET pos == str_find(name, ":") IN
    IF pos = -1 THEN find_name(app, <<>>, name)
    ELSE LET ns == find_namespace(app.commands, str_upto(name, pos)) IN
         IF ns.kind # "ok" THEN raised(ns.kind, app)
         ELSE find_name(app, ns.namespace, ns.namespace \o str_from(name, pos))

(***************************************************************************)
(* Application: suggestions                                                *)
(***************************************************************************)

min(a, b) == IF a <= b THEN a ELSE b

\* the row of the edit-distance table for one more character ch of a, from the
\* row prev before it: row holds the entries 0..j-1 of the new row.  (The
\* singleton sets make the new entries values before the recursion goes on.)
RECURSIVE distance_row(_, _, _, _, _)
distance_row(prev, ch, b, j, row) ==
    IF j > Len(b) THEN row
    ELSE CHOOSE r \in {distance_row(prev, ch, b, j + 1, next)
                       : next \in {Append(row, min(min(prev[j + 1] + 1, row[j] + 1),
                                                  prev[j] + (IF ch = b[j] THEN 0 ELSE 1)))}}
             : TRUE

RECURSIVE distance_rows(_, _, _, _)
distance_rows(a, b, i, prev) ==
    IF i > Len(a) THEN prev[Len(b) + 1]
    ELSE CHOOSE d \in {distance_rows(a, b, i + 1, row)
                       : row \in {distance_row(prev, a[i], b, 1, <<i>>)}}
             : TRUE

\* Levenshtein.distance(a, b): insertions, deletions and substitutions
distance(a, b) ==
    CHOOSE d \in {distance_rows(a, b, 1, row) : row \in {[k \in 1..(Len(b) + 1) |-> k - 1]}} : TRUE

\* distance(a, b) <= k.  The distance is at least the difference of the
\* lengths, so the table is computed only when that difference is within k.
distance_within(a, b, k) ==
    /\ Len(a) - Len(b) <= k
    /\ Len(b) - Len(a) <= k
    /\ distance(a, b) <= k

\* the test of lines 499 and 505; len(name) / 3 is the integer division
is_alternative(name, item) ==
    distance_within(name, item, Len(name) \div 3) \/ str_find_sub(item, name) # -1

\* the lists of the elements of S in a non-decreasing order of lev: what
\* sorted() makes of the items of the dict, whose order is not defined
RECURSIVE asorted(_, _)
asorted(S, lev) ==
    IF S = {} THEN {<<>>}
    ELSE UNION {{<<x>> \o rest : rest \in asorted(S \ {x}, lev)}
                : x \in {y \in S : \A z \in S : lev[y] <= lev[z]}}

\* find_alternatives with the length of the item in the threshold of line 499
find_alternatives_item_length(name, collection, abbrevs) ==
    LET direct == {item \in collection :
                      distance_within(name, item, Len(item) \div 3)
                      \/ str_find_sub(item, name) # -1}
    IN  asorted(direct, [item \in direct |-> distance(name, item)])

\* Application.find_alternatives(name, collection, abbrevs), collection holding
\* the items the callback gave: the lists it can return.  In the fallback over
\* the abbreviations a value keeps the distance of the last matching key the
\* dict yields, any of them.
find_alternatives(name, collection, abbrevs) ==
    LET direct == {item \in collection : is_alternative(name, item)}
        keys   == {key \in DOMAIN abbrevs : is_alternative(name, key)}
        values == UNION {abbrevs[key] : key \in keys}
    IN  IF direct # {}
        THEN asorted(direct, [item \in direct |-> distance(name, item)])
        ELSE UNION {asorted(values, lev)
                    : lev \in {f \in [values -> {distance(name, key) : key \in keys}] :
                                  \A v \in values : \E key \in keys :
                                      v \in abbrevs[key] /\ f[v] = distance(name, key)}}

\* Application.find_alternative_commands(name, abbrevs)
find_alternative_commands(cmds, name, abbrevs) ==
    find_alternatives(name, {get_name(c) : c \in dict_values(cmds)}, abbrevs)

(***************************************************************************)
(* The scans of the raw tokens the dispatcher uses before binding          *)
(***************************************************************************)

\* ArgvInput.get_first_argument: the first token that does not start with "-",
\* None when the loop falls through
RECURSIVE get_first_argument(_)
get_first_argument(toks) ==
    IF Len(toks) = 0 THEN NoneStr
    ELSE IF Len(Head(toks)) > 0 /\ Head(toks)[1] = "-" THEN get_first_argument(Tail(toks))
    ELSE Head(toks)

\* ArgvInput.has_parameter_option(values)
has_parameter_option(toks, values) == \E i \in 1..Len(toks) : toks[i] \in values

t_help == <<"-","-","h","e","l","p">>
t_h    == <<"-","h">>

\* Application.do_run, lines 106-130: the command name the dispatch resolves
do_run_name(toks) ==
    LET name == get_first_argument(toks)
        none == name = NoneStr \/ name = <<>>
    IN  IF has_parameter_option(toks, {t_help, t_h}) /\ none THEN s_help
        ELSE IF none THEN s_list
        ELSE name

\* Application.do_run, lines 113-118: whether the dispatch sets __want_helps
do_run_wants_help(toks) ==
    LET name == get_first_argument(toks) IN
    has_parameter_option(toks, {t_help, t_h}) /\ ~(name = NoneStr \/ name = <<>>)

t_ansi == <<"-","-","a","n","s","i">>
t_no_ansi == <<"-","-","n","o","-","a","n","s","i">>
t_no_interaction == <<"-","-","n","o","-","i","n","t","e","r","a","c","t","i","o","n">>
t_n == <<"-","n">>
t_quiet == <<"-","-","q","u","i","e","t">>
t_q == <<"-","q">>
t_verbose == <<"-","-","v","e","r","b","o","s","e">>
t_v == <<"-","v">>

s_command == <<"c","o","m","m","a","n","d">>

\* ListInput([('command', name)]): the parameters of the substituted input
ListInput(name) == << <<s_command, name>> >>

\* ListInput.has_parameter_option(values): a parameter whose name is listed
list_has_parameter_option(parameters, values) ==
    \E i \in 1..Len(parameters) : parameters[i][1] \in values

\* the options of the call that do_run applies before it resolves the command
\* (lines 108-130), each test made on the input object that input_ names at
\* that line: decorated and verbosity are what the output is set to
\* ("default" and "normal" when no setter is called), interactive is the flag
\* of the input the command is run with
do_run_options(toks) ==
    LET name == get_first_argument(toks)
        none == name = NoneStr \/ name = <<>>
        substituted == has_parameter_option(toks, {t_help, t_h}) /\ none
        has(values) == IF substituted
                       THEN list_has_parameter_option(ListInput(s_help), values)
                       ELSE has_parameter_option(toks, values)
    IN  [ decorated   |-> IF has_parameter_option(toks, {t_ansi}) THEN "on"
                          ELSE IF has_parameter_option(toks, {t_no_ansi}) THEN "off"
                          ELSE "default",
          interactive |-> IF ~substituted /\ none THEN TRUE
                          ELSE ~has({t_no_interaction, t_n}),
          verbosity   |-> IF has({t_quiet, t_q}) THEN "quiet"
                          ELSE IF has({t_verbose, t_v}) THEN "verbose"
                          ELSE "normal" ]

\* Application.do_run, lines 106-133: up to and including the resolution of
\* the command
do_run_find(app, toks) ==
    find(IF do_run_wants_help(toks) THEN [app EXCEPT !.want_helps = TRUE] ELSE app,
         do_run_name(toks))

(***************************************************************************)
(* The Application as a state machine                                      *)
(***************************************************************************)

Application == [commands |-> commands, want_helps |-> want_helps, help_target |-> help_target]

\* the names asked of find
Queries ==
    { s_a_b, s_x, s_li, s_list, s_db_migrate,
      <<"d">>, <<"l">>,
      <<"d","b",":">>, <<"d","b",":","m">>, <<"d",":","m">>,
      <<"z",":","q">>, <<":","m">> }

NoCall == [op |-> "none", name |-> <<>>, kind |-> "ok", key |-> NoneStr, cmd |-> None,
           flag |-> FALSE, alternatives |-> <<>>, argv |-> <<>>,
           decorated |-> "default", interactive |-> TRUE, verbosity |-> "normal"]

\* Application.__init__: the default commands are added to an empty registry
InitCommands ==
    LET a1 == add(<<>>, {}, DefaultCommands[1])
        a2 == add(a1.commands, a1.attached, DefaultCommands[2])
    IN  a2

AppInit ==
    /\ commands = InitCommands.commands
    /\ want_helps = FALSE
    /\ help_target = None
    /\ attached = InitCommands.attached
    /\ ret = NoCall

Add(c) ==
    \E r \in {add(commands, attached, c)} :
    /\ commands' = r.commands
    /\ attached' = r.attached
    /\ ret' = [NoCall EXCEPT !.op = "add", !.name = get_name(c), !.cmd = r.cmd,
                              !.flag = want_helps]
    /\ UNCHANGED <<want_helps, help_target>>
    /\ UNCHANGED <<inputvars, cmdvars, runvars>>

Find(name) ==
    \E r \in {find(Application, name)} :
    /\ commands' = r.app.commands
    /\ want_helps' = r.app.want_helps
    /\ help_target' = r.app.help_target
    /\ ret' = [NoCall EXCEPT !.op = "find", !.name = name, !.kind = r.kind, !.key = r.key,
                              !.cmd = r.cmd, !.flag = want_helps]
    /\ UNCHANGED attached
    /\ UNCHANGED <<inputvars, cmdvars, runvars>>

\* the names alternatives are asked for
s_hlp == <<"h","l","p">>
s_zzzzzzzzzz == [i \in 1..10 |-> "z"]

Misspellings == { s_hlp, s_zzzzzzzzzz, <<"d">>, <<"h","e","x">>, <<"l","i","t">> }

\* Application.find_alternative_commands(name, abbrevs), as find calls it (line
\* 326) for a name with no colon: abbrevs is the table of the colon-less names
FindAlternativeCommands(name) ==
    \E alts \in find_alternative_commands(commands, name,
                     get_abbreviations(find_commands(commands, <<>>))) :
    /\ ret' = [NoCall EXCEPT !.op = "find_alternative_commands", !.name = name,
                              !.flag = want_helps, !.alternatives = alts]
    /\ UNCHANGED <<commands, want_helps, help_target, attached>>
    /\ UNCHANGED <<inputvars, cmdvars, runvars>>

\* the raw tokens of the dispatches
DispatchInputs ==
    { <<>>, <<t_help>>, <<s_db_migrate, t_help>>, <<t_h, <<"z",":","q">> >>,
      <<s_li, t_h>>, <<s_x, t_help>>,
      <<s_list, t_q, t_n>>, <<t_verbose, s_a_b, t_ansi>>, <<t_h, t_q>>,
      <<t_n, t_no_ansi>> }

\* the resolution step of a dispatch: do_run up to the call of find; do_run
\* ends here when find raises
DoRunResolve(toks) ==
    \E r \in {do_run_find(Application, toks)} :
    /\ commands' = r.app.commands
    /\ want_helps' = r.app.want_helps
    /\ help_target' = r.app.help_target
    /\ ret' = [NoCall EXCEPT !.op = "do_run", !.name = do_run_name(toks), !.kind = r.kind,
                              !.key = r.key, !.cmd = r.cmd,
                              !.flag = want_helps \/ do_run_wants_help(toks),
                              !.argv = toks,
                              !.decorated = do_run_options(toks).decorated,
                              !.interactive = do_run_options(toks).interactive,
                              !.verbosity = do_run_options(toks).verbosity]
    /\ UNCHANGED attached
    /\ UNCHANGED <<inputvars, cmdvars, runvars>>

\* the namespaces asked of find_namespace
NamespaceQueries ==
    { <<"p",":","q">>, <<"r",":","s">>, <<"p",":","s">>, <<"p">>, <<"r">>, <<"d">>,
      <<"d","b">>, <<"p",":","z">>, <<"z">>, <<"p",":","q",":","g">> }

\* Application.find_namespace(namespace)
FindNamespace(namespace) ==
    \E r \in {find_namespace(commands, namespace)} :
    /\ ret' = [NoCall EXCEPT !.op = "find_namespace", !.name = namespace, !.kind = r.kind,
                              !.key = IF r.kind = "ok" THEN r.namespace ELSE NoneStr,
                              !.flag = want_helps]
    /\ UNCHANGED <<commands, want_helps, help_target, attached>>
    /\ UNCHANGED <<inputvars, cmdvars, runvars>>

\* the registrations and the namespace lookups
NamespaceNext ==
    \/ \E c \in DeepCommandIds \cup {"migrate", "seed", "ab"} : Add(c)
    \/ \E namespace \in NamespaceQueries : FindNamespace(namespace)

AppNext ==
    \/ \E c \in CommandIds \ {"help", "list"} : Add(c)
    \/ \E name \in Queries : Find(name)
    \/ \E toks \in DispatchInputs : DoRunResolve(toks)
    \/ \E name \in Misspellings : FindAlternativeCommands(name)

(***************************************************************************)
(* Values: a bound value is a string, True, None or a list of values.      *)
(***************************************************************************)

V_str(s)      == [t |-> "str",  s |-> s,    items |-> <<>>]
V_true        == [t |-> "bool", s |-> <<>>, items |-> <<>>]
V_none        == [t |-> "none", s |-> <<>>, items |-> <<>>]
V_false       == [t |-> "false", s |-> <<>>, items |-> <<>>]
V_list(items) == [t |-> "list", s |-> <<>>, items |-> items]

(***************************************************************************)
(* InputDefinition, InputOption, InputArgument: the accessors the binder   *)
(* calls.  A definition is [arguments: sequence of [name, array],          *)
(* options: set of [name, shortcut, mode, array, default]].                *)
(***************************************************************************)

has_option(def, name) == \E o \in def.options : o.name = name
get_option(def, name) == CHOOSE o \in def.options : o.name = name
has_shortcut(def, shortcut) == \E o \in def.options : o.shortcut = shortcut
get_option_for_shortcut(def, shortcut) == CHOOSE o \in def.options : o.shortcut = shortcut
has_argument(def, index) == 0 <= index /\ index < Len(def.arguments)
get_argument(def, index) == def.arguments[index + 1]
accept_value(option) == option.mode \in {"required", "optional"}
is_value_required(option) == option.mode = "required"
is_value_optional(option) == option.mode = "optional"

(***************************************************************************)
(* ArgvInput: the binder.  An input is [tokens, arguments, options,        *)
(* parse_options, error]; an operation returns the input it leaves, error  *)
(* naming the exception it raised.                                         *)
(***************************************************************************)

raise(in, kind) == [in EXCEPT !.error = kind]

\* parse_argument replacing the items of the array slot by the new token
parse_argument_overwrite(def, in, token) ==
    LET c == Cardinality(DOMAIN in.arguments) IN
    IF has_argument(def, c)
    THEN [in EXCEPT !.arguments =
              dict_set(@, get_argument(def, c).name,
                       IF get_argument(def, c).array THEN V_list(<<V_str(token)>>)
                       ELSE V_str(token))]
    ELSE IF has_argument(def, c - 1) /\ get_argument(def, c - 1).array
    THEN [in EXCEPT !.arguments =
              dict_set(@, get_argument(def, c - 1).name, V_list(<<V_str(token)>>))]
    ELSE raise(in, "too_many_arguments")

\* parse_argument dropping the token no slot is left for
parse_argument_drop_extra(def, in, token) ==
    LET c == Cardinality(DOMAIN in.arguments) IN
    IF has_argument(def, c)
    THEN [in EXCEPT !.arguments =
              dict_set(@, get_argument(def, c).name,
                       IF get_argument(def, c).array THEN V_list(<<V_str(token)>>)
                       ELSE V_str(token))]
    ELSE IF has_argument(def, c - 1) /\ get_argument(def, c - 1).array
    THEN [in EXCEPT !.arguments =
              dict_set(@, get_argument(def, c - 1).name,
                       V_list(Append(@[get_argument(def, c - 1).name].items, V_str(token))))]
    ELSE in

\* ArgvInput.parse_argument(token)
parse_argument(def, in, token) ==
    LET c == Cardinality(DOMAIN in.arguments) IN
    IF has_argument(def, c)
    THEN [in EXCEPT !.arguments =
              dict_set(@, get_argument(def, c).name,
                       IF get_argument(def, c).array THEN V_list(<<V_str(token)>>)
                       ELSE V_str(token))]
    ELSE IF has_argument(def, c - 1) /\ get_argument(def, c - 1).array
    THEN [in EXCEPT !.arguments =
              dict_set(@, get_argument(def, c - 1).name,
                       V_list(Append(@[get_argument(def, c - 1).name].items, V_str(token))))]
    ELSE raise(in, "too_many_arguments")

\* ArgvInput.add_long_option, lines 135-147: the binding of the resolved value
bind_option(in, option, value) ==
    IF value.t = "none" /\ is_value_required(option)
    THEN raise(in, "requires_value")
    ELSE LET v == IF value.t # "none" THEN value
                  ELSE IF is_value_optional(option) THEN option.default
                  ELSE V_true
         IN  [in EXCEPT !.options =
                  IF option.array
                  THEN IF option.name \notin DOMAIN @
                       THEN dict_set(@, option.name, V_list(<<v>>))
                       ELSE dict_set(@, option.name, V_list(Append(@[option.name].items, v)))
                  ELSE dict_set(@, option.name, v)]

\* ArgvInput.add_long_option(name, value)
add_long_option(def, in, name, value) ==
    IF ~has_option(def, name) THEN raise(in, "option_not_exist")
    ELSE LET option == get_option(def, name) IN
         IF value.t = "none" /\ accept_value(option) /\ Len(in.tokens) > 0
         THEN LET nxt == Head(in.tokens) IN
              IF Len(nxt) >= 1 /\ nxt[1] = "-"
              THEN bind_option([in EXCEPT !.tokens = Tail(@)], option, V_str(nxt))
              ELSE IF Len(nxt) = 0
              THEN bind_option([in EXCEPT !.tokens = Tail(@)], option, V_str(<<>>))
              ELSE bind_option(in, option, value)
         ELSE bind_option(in, option, value)

\* ArgvInput.add_short_option(shortcut, value)
add_short_option(def, in, shortcut, value) ==
    IF ~has_shortcut(def, shortcut) THEN raise(in, "shortcut_not_exist")
    ELSE add_long_option(def, in, get_option_for_shortcut(def, shortcut).name, value)

\* lines 47-54 and 81-88: the value the option reads from the queue.  At the
\* end of the queue value is None and value.startswith raises AttributeError.
next_value(in) ==
    IF Len(in.tokens) = 0 THEN [in |-> raise(in, "attribute_error"), value |-> V_none]
    ELSE IF startswith(Head(in.tokens), <<"-">>) THEN [in |-> in, value |-> V_none]
    ELSE [in |-> [in EXCEPT !.tokens = Tail(@)], value |-> V_str(Head(in.tokens))]

\* ArgvInput.parse_short_option_set(name), from the character at i (0-based) on
RECURSIVE parse_short_option_set_from(_, _, _, _)
parse_short_option_set_from(def, in, name, i) ==
    IF i >= Len(name) THEN in
    ELSE IF ~has_shortcut(def, <<name[i + 1]>>) THEN raise(in, "shortcut_not_exist")
    ELSE LET option == get_option_for_shortcut(def, <<name[i + 1]>>) IN
         IF accept_value(option)
         THEN add_long_option(def, in, option.name,
                  IF Len(name) - 1 = i THEN V_none ELSE V_str(str_from(name, i + 1)))
         ELSE LET r == add_long_option(def, in, option.name, V_true) IN
              IF r.error # None THEN r
              ELSE parse_short_option_set_from(def, r, name, i + 1)

\* parse_short_option_set without the break of line 70: the characters after a
\* value-accepting shortcut are read as shortcuts too
RECURSIVE parse_short_option_set_no_break_from(_, _, _, _)
parse_short_option_set_no_break_from(def, in, name, i) ==
    IF i >= Len(name) THEN in
    ELSE IF ~has_shortcut(def, <<name[i + 1]>>) THEN raise(in, "shortcut_not_exist")
    ELSE LET option == get_option_for_shortcut(def, <<name[i + 1]>>)
             r      == add_long_option(def, in, option.name,
                           IF ~accept_value(option) THEN V_true
                           ELSE IF Len(name) - 1 = i THEN V_none
                           ELSE V_str(str_from(name, i + 1)))
         IN  IF r.error # None THEN r
             ELSE parse_short_option_set_no_break_from(def, r, name, i + 1)

parse_short_option_set_no_break(def, in, name) ==
    parse_short_option_set_no_break_from(def, in, name, 0)

\* ArgvInput.parse_short_option_set(name)
parse_short_option_set(def, in, name) == parse_short_option_set_from(def, in, name, 0)

\* ArgvInput.parse_short_option(token)
parse_short_option(def, in, token) ==
    LET name == str_from(token, 1) IN
    IF Len(name) > 1
    THEN IF has_shortcut(def, <<name[1]>>)
            /\ accept_value(get_option_for_shortcut(def, <<name[1]>>))
         THEN add_short_option(def, in, <<name[1]>>, V_str(str_from(name, 1)))
         ELSE parse_short_option_set(def, in, name)
    ELSE IF has_shortcut(def, name) /\ accept_value(get_option_for_shortcut(def, name))
         THEN LET nv == next_value(in) IN
              IF nv.in.error # None THEN nv.in
              ELSE add_short_option(def, nv.in, name, nv.value)
         ELSE add_short_option(def, in, name, V_none)

\* parse_long_option taking an empty text after "=" for no value at all
parse_long_option_empty_is_none(def, in, token) ==
    LET name == str_from(token, 2)
        pos  == str_find(name, "=")
    IN  IF pos # -1
        THEN add_long_option(def, in, str_upto(name, pos),
                 IF Len(str_from(name, pos + 1)) = 0 THEN V_none
                 ELSE V_str(str_from(name, pos + 1)))
        ELSE IF has_option(def, name) /\ accept_value(get_option(def, name))
             THEN LET nv == next_value(in) IN
                  IF nv.in.error # None THEN nv.in
                  ELSE add_long_option(def, nv.in, name, nv.value)
             ELSE add_long_option(def, in, name, V_none)

\* ArgvInput.parse_long_option(token)
parse_long_option(def, in, token) ==
    LET name == str_from(token, 2)
        pos  == str_find(name, "=")
    IN  IF pos # -1
        THEN add_long_option(def, in, str_upto(name, pos), V_str(str_from(name, pos + 1)))
        ELSE IF has_option(def, name) /\ accept_value(get_option(def, name))
             THEN LET nv == next_value(in) IN
                  IF nv.in.error # None THEN nv.in
                  ELSE add_long_option(def, nv.in, name, nv.value)
             ELSE add_long_option(def, in, name, V_none)

\* the loop's iteration with the long-option test of line 29 not guarded by
\* parse_options
parse_token_unguarded_long(def, in) ==
    LET token == Head(in.tokens)
        rest  == [in EXCEPT !.tokens = Tail(@)]
    IN  IF in.parse_options /\ token = <<>> THEN parse_argument(def, rest, token)
        ELSE IF in.parse_options /\ token = <<"-","-">>
        THEN [rest EXCEPT !.parse_options = FALSE]
        ELSE IF startswith(token, <<"-","-">>) /\ Len(token) > 2
        THEN parse_long_option(def, rest, token)
        ELSE IF in.parse_options /\ token[1] = "-" THEN parse_short_option(def, rest, token)
        ELSE parse_argument(def, rest, token)

\* ArgvInput.parse, lines 21-34: one iteration of the loop on a non-empty queue
parse_token(def, in) ==
    LET token == Head(in.tokens)
        rest  == [in EXCEPT !.tokens = Tail(@)]
    IN  IF in.parse_options /\ token = <<>> THEN parse_argument(def, rest, token)
        ELSE IF in.parse_options /\ token = <<"-","-">>
        THEN [rest EXCEPT !.parse_options = FALSE]
        ELSE IF in.parse_options /\ startswith(token, <<"-","-">>)
        THEN parse_long_option(def, rest, token)
        ELSE IF in.parse_options /\ token[1] = "-" THEN parse_short_option(def, rest, token)
        ELSE parse_argument(def, rest, token)

\* ArgvInput.get_parameter_option(values, default) on the token list toks: the
\* result, the exception raised and the token list it leaves (lines 168-181: the
\* tokens are popped off self.__tokens itself)
RECURSIVE get_parameter_option(_, _, _)
get_parameter_option(toks, values, default) ==
    IF Len(toks) = 0 THEN [tokens |-> toks, result |-> default, error |-> None]
    ELSE LET token == Head(toks)
             rest  == Tail(toks)
         IN  IF \E i \in 1..Len(values) : str_find_sub(token, values[i]) = 0
             THEN LET pos == str_find(token, "=") IN
                  IF pos # -1
                  THEN [tokens |-> rest, result |-> V_str(str_upto(token, pos + 1)),
                        error |-> None]
                  ELSE IF Len(rest) = 0
                  THEN [tokens |-> rest, result |-> V_none, error |-> "index_error"]
                  ELSE [tokens |-> Tail(rest), result |-> V_str(Head(rest)), error |-> None]
             ELSE get_parameter_option(rest, values, default)

(***************************************************************************)
(* The definitions and the token sequences bound                           *)
(***************************************************************************)

s_aa    == <<"a","a">>
s_bb    == <<"b","b">>
s_cc    == <<"c","c">>
s_file  == <<"f","i","l","e">>
s_opt   == <<"o","p","t">>
s_name  == <<"n","a","m","e">>
s_tags  == <<"t","a","g","s">>
s_alice == <<"a","l","i","c","e">>
s_red   == <<"r","e","d">>
s_blue  == <<"b","l","u","e">>
s_value == <<"v","a","l","u","e">>
s_VALUE == <<"V","A","L","U","E">>

Flags ==
    { [name |-> s_aa, shortcut |-> <<"a">>, mode |-> "none", array |-> FALSE, default |-> V_none],
      [name |-> s_bb, shortcut |-> <<"b">>, mode |-> "none", array |-> FALSE, default |-> V_none],
      [name |-> s_cc, shortcut |-> <<"c">>, mode |-> "none", array |-> FALSE, default |-> V_none],
      [name |-> s_opt, shortcut |-> <<"o">>, mode |-> "optional", array |-> FALSE,
       default |-> V_none] }

\* a required name and a trailing array of tags; --file takes one value
DefinitionTags ==
    [arguments |-> <<[name |-> s_name, array |-> FALSE], [name |-> s_tags, array |-> TRUE]>>,
     options   |-> Flags \cup {[name |-> s_file, shortcut |-> <<"f">>, mode |-> "required",
                                array |-> FALSE, default |-> V_none]}]

\* a single argument; --file collects the values of its occurrences
DefinitionFiles ==
    [arguments |-> <<[name |-> s_name, array |-> FALSE]>>,
     options   |-> Flags \cup {[name |-> s_file, shortcut |-> <<"f">>, mode |-> "required",
                                array |-> TRUE, default |-> V_none]}]

Definitions == {DefinitionTags, DefinitionFiles}

TokenPool ==
    { <<>>, <<"-","-">>, <<"-">>, <<"-","a">>, <<"-","f">>, <<"-","x">>,
      <<"-","a","b","c">>, <<"-","a","b","f">> \o s_VALUE,
      <<"-","-">> \o s_file, <<"-","-">> \o s_file \o <<"=">> \o s_value,
      <<"-","-">> \o s_file \o <<"=">>, <<"-","-">> \o s_opt,
      <<"-","-">> \o s_aa \o <<"=","t">>, s_alice, s_red, s_blue }

MaxTokens == 3

TokenSequences == UNION {[1..n -> TokenPool] : n \in 0..MaxTokens}

NoStep == [token |-> <<>>, tokens |-> <<>>, arguments |-> <<>>, options |-> <<>>,
           parse_options |-> FALSE, read |-> FALSE]

\* no parse() call has ended yet
NoBinding == [arguments |-> <<>>, options |-> <<>>, error |-> None, ended |-> FALSE]

\* no get_parameter_option call was made yet
NoScan == [called |-> FALSE, values |-> <<>>, before |-> <<>>, result |-> V_none,
           error |-> None]

\* the parse() calls made on one ArgvInput
MaxParses == 2

\* the names the scans look for
ParameterNames ==
    { << <<"-","-">> \o s_file, <<"-","f">> >>, << <<"-","-">> \o s_opt >>, << <<"-","x">> >> }

\* the ArgvInput the resolver's specification leaves alone
InputIdle ==
    /\ tokens = <<>>
    /\ definition = DefinitionTags
    /\ arguments = <<>>
    /\ options = <<>>
    /\ parse_options = TRUE
    /\ pc = "constructed"
    /\ error = None
    /\ step = NoStep
    /\ calls = 0
    /\ bound1 = NoBinding
    /\ scan = NoScan

\* ArgvInput.__init__: the tokens are the process arguments, nothing is bound
InputInit ==
    /\ tokens \in TokenSequences
    /\ definition \in Definitions
    /\ arguments = <<>>
    /\ options = <<>>
    /\ parse_options = TRUE
    /\ pc = "constructed"
    /\ error = None
    /\ step = NoStep
    /\ calls = 0
    /\ bound1 = NoBinding
    /\ scan = NoScan

Input == [tokens |-> tokens, arguments |-> arguments, options |-> options,
          parse_options |-> parse_options, error |-> None]

\* the bindings the first parse() call ended with
first_binding(n, args, opts, err) ==
    IF n = 1 THEN [arguments |-> args, options |-> opts, error |-> err, ended |-> TRUE]
    ELSE bound1

\* ArgvInput.parse, lines 17-18: a call of parse(), the first one or one more on
\* the same instance; __parsed is the list __tokens itself
ParseBegin ==
    /\ pc \in {"constructed", "parsed", "raised"}
    /\ calls < MaxParses
    /\ pc' = "parsing"
    /\ parse_options' = TRUE
    /\ error' = None
    /\ step' = NoStep
    /\ calls' = calls + 1
    /\ UNCHANGED <<tokens, definition, arguments, options, bound1, scan>>
    /\ UNCHANGED <<appvars, cmdvars, runvars>>

\* ArgvInput.parse, lines 19-34: an iteration that reads a token
ParseToken ==
    /\ pc = "parsing"
    /\ Len(tokens) > 0
    /\ \E r \in {parse_token(definition, Input)} :
        /\ tokens' = r.tokens
        /\ arguments' = r.arguments
        /\ options' = r.options
        /\ parse_options' = r.parse_options
        /\ error' = r.error
        /\ pc' = IF r.error # None THEN "raised" ELSE "parsing"
        /\ bound1' = IF r.error # None
                     THEN first_binding(calls, r.arguments, r.options, r.error)
                     ELSE bound1
    /\ step' = [token |-> Head(tokens), tokens |-> Tail(tokens), arguments |-> arguments,
                options |-> options, parse_options |-> parse_options, read |-> TRUE]
    /\ UNCHANGED <<definition, calls, scan>>
    /\ UNCHANGED <<appvars, cmdvars, runvars>>

\* ArgvInput.parse, lines 20-23: the queue is empty, the loop ends
ParseEnd ==
    /\ pc = "parsing"
    /\ Len(tokens) = 0
    /\ pc' = "parsed"
    /\ bound1' = first_binding(calls, arguments, options, error)
    /\ UNCHANGED <<tokens, definition, arguments, options, parse_options, error, step,
                   calls, scan>>
    /\ UNCHANGED <<appvars, cmdvars, runvars>>

\* ArgvInput.get_parameter_option(values, False), called before the input is
\* bound
GetParameterOption(values) ==
    /\ pc = "constructed"
    /\ \E r \in {get_parameter_option(tokens, values, V_false)} :
        /\ tokens' = r.tokens
        /\ scan' = [called |-> TRUE, values |-> values, before |-> tokens,
                    result |-> r.result, error |-> r.error]
    /\ UNCHANGED <<definition, arguments, options, parse_options, pc, error, step,
                   calls, bound1>>
    /\ UNCHANGED <<appvars, cmdvars, runvars>>

InputNext ==
    \/ ParseBegin
    \/ ParseToken
    \/ ParseEnd
    \/ \E values \in ParameterNames : GetParameterOption(values)

(***************************************************************************)
(* A Command instance                                                      *)
(***************************************************************************)

s_quiet == <<"q","u","i","e","t">>
s_verbose == <<"v","e","r","b","o","s","e">>
s_version == <<"v","e","r","s","i","o","n">>
s_ansi == <<"a","n","s","i">>
s_no_ansi == <<"n","o","-","a","n","s","i">>
s_no_interaction == <<"n","o","-","i","n","t","e","r","a","c","t","i","o","n">>

\* Application.get_default_input_definition: the argument and the options of
\* the application
ApplicationDefinition ==
    [ arguments |-> <<s_command>>,
      options   |-> {s_help, s_quiet, s_verbose, s_version, s_ansi, s_no_ansi,
                     s_no_interaction} ]

\* the definitions commands are configured with
EmptyDefinition == [arguments |-> <<>>, options |-> {}]

NativeDefinitions ==
    { EmptyDefinition,
      [arguments |-> <<s_name>>, options |-> {s_opt}],
      [arguments |-> <<s_name, s_tags>>, options |-> {s_file}] }

\* InputDefinition.set_arguments, add_arguments, add_options
set_arguments(d, args) == [d EXCEPT !.arguments = args]
add_arguments(d, args) == [d EXCEPT !.arguments = d.arguments \o args]
add_options(d, opts) == [d EXCEPT !.options = d.options \cup opts]

Command == [ application |-> cmd_application, definition |-> cmd_definition,
             merged |-> application_definition_merged, synopsis |-> synopsis,
             merges |-> merges, ignore |-> ignore_validation_errors ]

\* Command.get_synopsis: built from the definition on the first call, kept
\* then; <<>> stands for None, <<d>> for the text built from definition d
get_synopsis(c) ==
    IF c.synopsis = <<>> THEN [c EXCEPT !.synopsis = <<c.definition>>] ELSE c

\* Command.merge_application_definition(merge_args)
merge_application_definition(c, merge_args) ==
    IF ~c.application \/ c.merged THEN c
    ELSE LET d1 == IF merge_args
                   THEN add_arguments(set_arguments(c.definition, ApplicationDefinition.arguments),
                                      c.definition.arguments)
                   ELSE c.definition
             d2 == add_options(d1, ApplicationDefinition.options)
         IN  [c EXCEPT !.definition = d2, !.merged = TRUE, !.merges = c.merges + 1]

\* cmd_ret: the call, the definition run() handed to bind, and for run() the
\* tokens and the interactive flag of its input, the steps it made in order,
\* how it ended, the error bind raised, and the bindings it left
NoCommandCall == [op |-> "none", bind |-> <<>>, tokens |-> <<>>, interactive |-> FALSE,
                  ignore |-> FALSE, trace |-> <<>>, outcome |-> "none", error |-> None,
                  bind_error |-> None, arguments |-> <<>>, options |-> <<>>]

\* InputArgument: the arguments by name; command and name are required
argument_spec(name) ==
    [name |-> name, array |-> name = s_tags, required |-> name \in {s_command, s_name}]

\* InputOption: the options by name; the options of the application take no
\* value
option_spec(name) ==
    IF \E o \in DefinitionTags.options : o.name = name
    THEN CHOOSE o \in DefinitionTags.options : o.name = name
    ELSE [name |-> name,
          shortcut |-> CASE name = s_help -> <<"h">>
                         [] name = s_quiet -> <<"q">>
                         [] name = s_verbose -> <<"v">>
                         [] name = s_version -> <<"V">>
                         [] name = s_no_interaction -> <<"n">>
                         [] OTHER -> <<>>,
          mode |-> "none", array |-> FALSE, default |-> V_none]

\* the InputDefinition of a command as the binder reads it
input_definition(d) ==
    [arguments |-> [i \in 1..Len(d.arguments) |-> argument_spec(d.arguments[i])],
     options   |-> {option_spec(o) : o \in d.options}]

\* ArgvInput.parse: the loop over the tokens, ended by the first exception
RECURSIVE parse(_, _)
parse(def, in) ==
    IF in.error # None \/ Len(in.tokens) = 0 THEN in
    ELSE parse(def, parse_token(def, in))

\* Input.bind(definition): nothing is bound, then the tokens are parsed
bind(def, toks) ==
    parse(def, [tokens |-> toks, arguments |-> <<>>, options |-> <<>>,
                parse_options |-> TRUE, error |-> None])

\* Input.validate(): every required argument of the definition is bound
validate(def, args) ==
    \A i \in 1..Len(def.arguments) :
        def.arguments[i].required => def.arguments[i].name \in DOMAIN args

\* Command.run, lines 94-114, with input_.validate() after the body
command_run_validate_last(d, ignore, toks, interactive) ==
    LET def == input_definition(d)
        b == bind(def, toks)
        bound == [NoCommandCall EXCEPT !.op = "run", !.bind = <<d>>, !.tokens = toks,
                                       !.interactive = interactive, !.ignore = ignore,
                                       !.bind_error = b.error,
                                       !.arguments = b.arguments, !.options = b.options]
        steps == <<"merge_application_definition", "bind", "initialize">>
                     \o (IF interactive THEN <<"interact">> ELSE <<>>) \o <<"body", "validate">>
    IN  IF b.error # None /\ ~ignore
        THEN [bound EXCEPT !.trace = <<"merge_application_definition", "bind">>, !.outcome = "raise", !.error = b.error]
        ELSE IF ~validate(def, b.arguments)
        THEN [bound EXCEPT !.trace = steps, !.outcome = "raise",
                           !.error = "not_enough_arguments"]
        ELSE [bound EXCEPT !.trace = steps, !.outcome = "return"]

\* Command.run, lines 94-114: bind, whose exception is swallowed if the command
\* ignores validation errors, then initialize, interact, validate and the body
command_run(d, ignore, toks, interactive) ==
    LET def == input_definition(d)
        b == bind(def, toks)
        bound == [NoCommandCall EXCEPT !.op = "run", !.bind = <<d>>, !.tokens = toks,
                                       !.interactive = interactive, !.ignore = ignore,
                                       !.bind_error = b.error,
                                       !.arguments = b.arguments, !.options = b.options]
        steps == <<"merge_application_definition", "bind", "initialize">>
                     \o (IF interactive THEN <<"interact">> ELSE <<>>) \o <<"validate">>
    IN  IF b.error # None /\ ~ignore
        THEN [bound EXCEPT !.trace = <<"merge_application_definition", "bind">>, !.outcome = "raise", !.error = b.error]
        ELSE IF ~validate(def, b.arguments)
        THEN [bound EXCEPT !.trace = steps, !.outcome = "raise",
                           !.error = "not_enough_arguments"]
        ELSE [bound EXCEPT !.trace = Append(steps, "body"), !.outcome = "return"]

\* Command.__init__ with the definition configure() builds: attached to no
\* application, nothing merged
CommandIdle ==
    /\ cmd_application = FALSE
    /\ cmd_definition = EmptyDefinition
    /\ application_definition_merged = FALSE
    /\ synopsis = <<>>
    /\ native = EmptyDefinition
    /\ merges = 0
    /\ ignore_validation_errors = FALSE
    /\ cmd_ret = NoCommandCall

CommandInit ==
    /\ cmd_application = FALSE
    /\ cmd_definition \in NativeDefinitions
    /\ application_definition_merged = FALSE
    /\ synopsis = <<>>
    /\ native = cmd_definition
    /\ merges = 0
    /\ ignore_validation_errors = FALSE
    /\ cmd_ret = NoCommandCall

StoreFields(c) ==
    /\ cmd_application' = c.application
    /\ cmd_definition' = c.definition
    /\ application_definition_merged' = c.merged
    /\ synopsis' = c.synopsis
    /\ merges' = c.merges
    /\ ignore_validation_errors' = c.ignore

Store(c, op, bound_with) ==
    /\ StoreFields(c)
    /\ cmd_ret' = [NoCommandCall EXCEPT !.op = op, !.bind = bound_with]

\* Command.ignore_validation_errors()
IgnoreValidationErrors ==
    /\ Store([Command EXCEPT !.ignore = TRUE], "ignore_validation_errors", <<>>)
    /\ UNCHANGED native
    /\ UNCHANGED <<appvars, inputvars, runvars>>

\* Command.set_application(application): Application.add passes the
\* application, None detaches
SetApplication(application) ==
    /\ Store([Command EXCEPT !.application = application], "set_application", <<>>)
    /\ UNCHANGED native
    /\ UNCHANGED <<appvars, inputvars, runvars>>

\* Command.set_definition(definition)
SetDefinition(d) ==
    /\ Store([Command EXCEPT !.definition = d, !.merged = FALSE, !.merges = 0],
             "set_definition", <<>>)
    /\ native' = d
    /\ UNCHANGED <<appvars, inputvars, runvars>>

\* Command.merge_application_definition(merge_args)
MergeApplicationDefinition(merge_args) ==
    /\ Store(merge_application_definition(Command, merge_args),
             "merge_application_definition", <<>>)
    /\ UNCHANGED native
    /\ UNCHANGED <<appvars, inputvars, runvars>>

\* Command.as_text: the fields it writes
AsText ==
    /\ Store(IF cmd_application /\ ~application_definition_merged
             THEN get_synopsis(merge_application_definition(get_synopsis(Command), FALSE))
             ELSE get_synopsis(Command),
             "as_text", <<>>)
    /\ UNCHANGED native
    /\ UNCHANGED <<appvars, inputvars, runvars>>

\* the tokens of the inputs commands are run on: the first argument is the
\* command name when the application's definition is merged; "-x" names no
\* option
RunTokens ==
    { <<>>, <<s_x>>, <<s_x, s_alice>>, <<s_x, s_alice, s_red>>,
      <<s_x, s_alice, <<"-","x">> >>, <<s_x, <<"-","x">>, s_alice>>,
      << <<"-","x">>, s_x, s_alice>>, <<s_x, s_alice, <<"-","-">> \o s_opt>> }

\* Command.run(input_, output_) on a new ArgvInput of the tokens toks:
\* cmd_ret.bind holds the definition bind is called with; the steps after the
\* merge write no field of the command
Run(toks, interactive) ==
    \E c \in {merge_application_definition(get_synopsis(Command), TRUE)} :
    /\ StoreFields(c)
    /\ cmd_ret' = command_run(c.definition, c.ignore, toks, interactive)
    /\ UNCHANGED native
    /\ UNCHANGED <<appvars, inputvars, runvars>>

CommandNext ==
    \/ \E application \in BOOLEAN : SetApplication(application)
    \/ \E d \in NativeDefinitions : SetDefinition(d)
    \/ \E merge_args \in BOOLEAN : MergeApplicationDefinition(merge_args)
    \/ AsText
    \/ IgnoreValidationErrors
    \/ \E toks \in RunTokens, interactive \in BOOLEAN : Run(toks, interactive)

(***************************************************************************)
(* Application.run: the boundary of a dispatch.  A status code is <<n>>     *)
(* for the integer n and <<>> for None.                                    *)
(***************************************************************************)

\* an exception: whether it has an errno attribute, and its value
PlainException == [has_errno |-> FALSE, errno |-> <<>>]

\* no exception was raised
NoException == [has_errno |-> FALSE, errno |-> <<0>>]

\* what the exceptions raised in a command are: Exception('...'), an
\* EnvironmentError with a numeric errno, IOError('...') whose errno is None
Exceptions ==
    { PlainException,
      [has_errno |-> TRUE, errno |-> <<2>>],
      [has_errno |-> TRUE, errno |-> <<300>>],
      [has_errno |-> TRUE, errno |-> <<>>] }

\* the status codes a command returns; <<>> is a body with no return value
StatusCodes == { <<0>>, <<1>>, <<255>>, <<256>>, <<300>>, <<-1>>, <<-300>>, <<>> }

\* how command.run(input_, output_) ends
CommandOutcomes ==
    {[kind |-> "return", status |-> c, exc |-> NoException] : c \in StatusCodes}
        \cup {[kind |-> "raise", status |-> <<>>, exc |-> e] : e \in Exceptions}

\* Python 2's status_code > k: None is smaller than every integer
status_gt(status, k) == status # <<>> /\ status[1] > k

\* Application.run, lines 86-90: the status handed to exit
exit_status(status) == IF status_gt(status, 255) THEN <<255>> ELSE status

\* Application.run, line 84: the status of a caught exception
caught_status(e) == IF e.has_errno THEN e.errno ELSE <<1>>

NoRun == [outcome |-> "none", status |-> <<>>, rendered |-> 0, rendered_to |-> "none",
          dispatch |-> "none", exc |-> NoException, catch |-> TRUE, exit |-> TRUE]

\* Application.run from the end of do_run on: dispatch is how do_run ended
run_end(dispatch, catch, exit, console) ==
    IF dispatch.kind = "raise" /\ ~catch
    THEN [NoRun EXCEPT !.outcome = "raise", !.dispatch = "raise", !.exc = dispatch.exc,
                       !.catch = catch, !.exit = exit]
    ELSE LET was_raised == dispatch.kind = "raise"
             status == IF was_raised THEN caught_status(dispatch.exc) ELSE dispatch.status
         IN  [NoRun EXCEPT !.outcome = IF exit THEN "exit" ELSE "return",
                           !.status = IF exit THEN exit_status(status) ELSE status,
                           !.rendered = IF was_raised THEN 1 ELSE 0,
                           !.rendered_to = IF ~was_raised THEN "none"
                                           ELSE IF console THEN "error_output" ELSE "output",
                           !.dispatch = dispatch.kind, !.exc = dispatch.exc,
                           !.catch = catch, !.exit = exit]

\* the state after construction: exceptions are caught, run() exits
RunIdle ==
    /\ catch_exceptions = TRUE
    /\ auto_exit = TRUE
    /\ run_ret = NoRun

\* Application.set_catch_exceptions(boolean)
SetCatchExceptions(boolean) ==
    /\ catch_exceptions' = boolean
    /\ UNCHANGED <<auto_exit, run_ret>>
    /\ UNCHANGED <<appvars, inputvars, cmdvars>>

\* Application.set_auto_exit(boolean)
SetAutoExit(boolean) ==
    /\ auto_exit' = boolean
    /\ UNCHANGED <<catch_exceptions, run_ret>>
    /\ UNCHANGED <<appvars, inputvars, cmdvars>>

\* Application.run(input_, output_) on the raw tokens toks: do_run resolves the
\* command (find raises an Exception) and runs it, which ends as out; console
\* is whether output_ is a ConsoleOutput
ApplicationRun(toks, out, console) ==
    \E r \in {do_run_find(Application, toks)} :
    /\ commands' = r.app.commands
    /\ want_helps' = r.app.want_helps
    /\ help_target' = r.app.help_target
    /\ ret' = [NoCall EXCEPT !.op = "do_run", !.name = do_run_name(toks), !.kind = r.kind,
                              !.key = r.key, !.cmd = r.cmd,
                              !.flag = want_helps \/ do_run_wants_help(toks),
                              !.argv = toks,
                              !.decorated = do_run_options(toks).decorated,
                              !.interactive = do_run_options(toks).interactive,
                              !.verbosity = do_run_options(toks).verbosity]
    /\ run_ret' = run_end(IF r.kind = "ok" THEN out
                           ELSE [kind |-> "raise", status |-> <<>>, exc |-> PlainException],
                          catch_exceptions, auto_exit, console)
    /\ UNCHANGED <<attached, catch_exceptions, auto_exit>>
    /\ UNCHANGED <<inputvars, cmdvars>>

\* the raw tokens of the runs
RunInputs == { <<>>, <<s_list>>, <<s_x>>, <<s_li, t_h>> }

RunNext ==
    \/ \E boolean \in BOOLEAN : SetCatchExceptions(boolean)
    \/ \E boolean \in BOOLEAN : SetAutoExit(boolean)
    \/ \E toks \in RunInputs, out \in CommandOutcomes, console \in BOOLEAN :
           ApplicationRun(toks, out, console)

\* a constructed Application, operated on; its input is left alone
InitResolver == AppInit /\ InputIdle /\ CommandIdle /\ RunIdle

SpecResolver == InitResolver /\ [][AppNext]_vars

\* a constructed Application: commands are registered and namespaces looked up
InitNamespace == AppInit /\ InputIdle /\ CommandIdle /\ RunIdle

SpecNamespace == InitNamespace /\ [][NamespaceNext]_vars

\* a constructed ArgvInput, parsed; the Application is left alone
InitBind == AppInit /\ InputInit /\ CommandIdle /\ RunIdle

SpecBind == InitBind /\ [][InputNext]_vars

\* a constructed Command; the Application's registry and the ArgvInput are
\* left alone
InitCommand == AppInit /\ InputIdle /\ CommandInit /\ RunIdle

SpecCommand == InitCommand /\ [][CommandNext]_vars

\* a constructed Application, configured and run
InitRun == AppInit /\ InputIdle /\ CommandIdle /\ RunIdle

SpecRun == InitRun /\ [][RunNext]_vars

(***************************************************************************)
(* Properties of the resolver                                              *)
(***************************************************************************)

\* the last call was find, directly or as the resolution step of a dispatch
is_find == ret.op \in {"find", "do_run"}

has_colon(s) == \E i \in 1..Len(s) : s[i] = ":"

\* the primary names of the commands the registry holds
registered_names == {get_name(c) : c \in dict_values(commands)}

\* the aliases of the commands the registry holds
registered_aliases ==
    UNION {{get_aliases(c)[i] : i \in 1..Len(get_aliases(c))} : c \in dict_values(commands)}

the(S) == CHOOSE x \in S : TRUE

\* the last find resolved to the registry key k and returned its entry: the
\* command under k or, when the help flag was pending, the help command set to
\* describe that command, the flag being cleared
returns_entry(k) ==
    /\ ret.kind = "ok"
    /\ ret.key = k
    /\ IF ret.flag
       THEN ret.cmd = commands[s_help] /\ help_target = commands[k] /\ ~want_helps
       ELSE ret.cmd = commands[k]

\* C1 (as claimed): after add(c) of an enabled command c, find(a) returns c for
\* every alias a of c, when no later registration reused a and no help flag is
\* pending, also for a colon-less alias such as "x" of the command "a:b".
C1_AliasRoundTrip ==
    \A c \in CommandIds : \A i \in 1..Len(get_aliases(c)) :
        LET a == get_aliases(c)[i] IN
        (/\ ret.op = "find" /\ ret.name = a /\ ~ret.flag
         /\ a \in DOMAIN commands /\ commands[a] = c)
            => (ret.kind = "ok" /\ ret.cmd = c)

\* C2: find(n) for the full primary name n of a registered command resolves to
\* n and returns the registry's entry under n, never raising (ambiguity
\* included), also when n is a proper prefix of another registered name.
C2_FullNameResolves ==
    \A n \in registered_names : (is_find /\ ret.name = n) => returns_entry(n)

\* find("li") returned the command "li" while "list" is registered too
C2_Witness ==
    /\ ret.op = "find" /\ ret.name = s_li /\ ret.kind = "ok" /\ ret.cmd = "li"
    /\ s_list \in registered_names /\ s_li \in registered_names

search_of(cmds, name) ==
    LET pos == str_find(name, ":")
        ns  == IF pos = -1 THEN [kind |-> "ok", namespace |-> <<>>]
               ELSE find_namespace(cmds, str_upto(name, pos))
    IN  [ok          |-> ns.kind = "ok",
         search_name |-> IF pos = -1 THEN name ELSE ns.namespace \o str_from(name, pos),
         candidates  |-> find_commands(cmds, ns.namespace)]

ambiguous_search(cmds, name) ==
    LET s == search_of(cmds, name) IN
    /\ s.ok
    /\ s.search_name \notin s.candidates
    /\ Cardinality({n \in s.candidates : startswith(n, s.search_name)}) >= 2

\* C4: whenever the expanded search name is a prefix of two or more candidate
\* command names and is no candidate name itself, find raises the ambiguous
\* command error, returns no command and leaves the registry (and the rest of
\* the application) as it was.
C4_AmbiguousRaises ==
    [][(ret'.op = "find" /\ ambiguous_search(commands, ret'.name)) =>
          /\ ret'.kind = "ambiguous" /\ ret'.cmd = None
          /\ commands' = commands /\ attached' = attached
          /\ want_helps' = want_helps /\ help_target' = help_target]_vars

\* find("db:") raised ambiguity with "db:migrate" and "db:seed" registered
C4_Witness ==
    /\ ret.op = "find" /\ ret.name = <<"d","b",":">> /\ ret.kind = "ambiguous"
    /\ {s_db_migrate, s_db_seed} \subseteq registered_names

\* the first parts of the namespaces of the registered names and aliases
first_segments ==
    {split(n, ":")[1] : n \in {m \in registered_names \cup registered_aliases : has_colon(m)}}

\* the namespace parts p stands for: itself when it is one, else those it
\* is a proper prefix of
expansions(p) ==
    IF p \in first_segments THEN {p} ELSE {s \in first_segments : startswith(s, p)}

\* C5: for a name with a colon, find expands the part before the first colon to
\* the one namespace part it abbreviates and matches the rebuilt name by
\* prefix: it resolves to the registered command name the rebuilt name equals,
\* or is the only one it is a prefix of ("db:m" and "d:m" give "db:migrate").
C5_NamespaceExpansion ==
    (is_find /\ has_colon(ret.name)) =>
        LET pos  == str_find(ret.name, ":")
            p    == str_upto(ret.name, pos)
            segs == expansions(p)
        IN  (p # <<>> /\ Cardinality(segs) = 1) =>
                LET sn      == the(segs) \o str_from(ret.name, pos)
                    matches == IF sn \in registered_names THEN {sn}
                               ELSE {n \in registered_names : startswith(n, sn)}
                IN  Cardinality(matches) = 1 => returns_entry(the(matches))

\* find("d:m") returned "db:migrate" with "db:seed" registered too
C5_Witness ==
    /\ ret.op = "find" /\ ret.name = <<"d",":","m">>
    /\ ret.kind = "ok" /\ ret.cmd = "migrate" /\ ret.key = s_db_migrate
    /\ {s_db_migrate, s_db_seed} \subseteq registered_names

(***************************************************************************)
(* Properties of the binder.  step holds the token the last iteration of   *)
(* parse() read and the queue, the bindings and parse_options it read it   *)
(* with; the other variables hold what the iteration left.                 *)
(***************************************************************************)

t_dashdash == <<"-","-">>

\* "--name" with no "="
is_long_plain(token) ==
    startswith(token, t_dashdash) /\ Len(token) > 2 /\ str_find(token, "=") = -1

\* "-f": one character after the dash
is_short_single(token) == Len(token) = 2 /\ token[1] = "-" /\ token[2] # "-"

\* the declared options a token written without "=" names, as a set
named_options(def, token) ==
    IF is_long_plain(token)
    THEN {o \in def.options : o.name = str_from(token, 2)}
    ELSE IF is_short_single(token)
    THEN {o \in def.options : o.shortcut = <<token[2]>>}
    ELSE {}

\* the options after value is bound to option: set, or appended for an array
with_value(opts, option, value) ==
    IF ~option.array THEN dict_set(opts, option.name, value)
    ELSE IF option.name \in DOMAIN opts
    THEN dict_set(opts, option.name, V_list(Append(opts[option.name].items, value)))
    ELSE dict_set(opts, option.name, V_list(<<value>>))

\* C6 (as claimed): a token that starts with "-" is never consumed as the value
\* of a preceding value-accepting option written without "=" ("--name" or
\* "-f"): it stays in the queue, to be parsed as an option of its own.
C6_DashTokenNotConsumed ==
    (/\ step.read /\ step.parse_options
     /\ \E o \in named_options(definition, step.token) : accept_value(o)
     /\ Len(step.tokens) > 0 /\ startswith(Head(step.tokens), <<"-">>))
        => tokens = step.tokens

\* C7 (as claimed): "--name" or "-f" of a value-required option as the last
\* token makes binding fail with the missing-value error and no other.
C7_MissingValueError ==
    (/\ step.read /\ step.parse_options
     /\ \E o \in named_options(definition, step.token) : is_value_required(o)
     /\ Len(step.tokens) = 0)
        => (pc = "raised" /\ error = "requires_value")

\* "-abc": a dash and two or more characters, the first not a dash
is_cluster(token) == Len(token) >= 3 /\ token[1] = "-" /\ token[2] # "-"

no_value_shortcut(def, ch) ==
    has_shortcut(def, <<ch>>) /\ ~accept_value(get_option_for_shortcut(def, <<ch>>))

value_shortcut(def, ch) ==
    has_shortcut(def, <<ch>>) /\ accept_value(get_option_for_shortcut(def, <<ch>>))

\* the input after n iterations of parse() on it, or after the one that raised
RECURSIVE iterate(_, _, _)
iterate(def, in, n) ==
    IF n = 0 \/ in.error # None \/ Len(in.tokens) = 0 THEN in
    ELSE iterate(def, parse_token(def, in), n - 1)

\* the options with the options of the first k shortcuts of name bound to True
RECURSIVE with_flags(_, _, _, _)
with_flags(def, opts, name, k) ==
    IF k = 0 THEN opts
    ELSE dict_set(with_flags(def, opts, name, k - 1),
                  get_option_for_shortcut(def, <<name[k]>>).name, V_true)

\* what the last iteration left of the input
Left == [tokens |-> tokens, arguments |-> arguments, options |-> options,
         parse_options |-> parse_options, error |-> error]

\* C8: a multi-character short token of no-value shortcuts binds what its
\* characters bind as tokens of their own ("-abc" as "-a", "-b", "-c"); when a
\* value-accepting shortcut comes first or after no-value shortcuts only, and
\* characters follow it, the no-value options before it are bound to True and it
\* is bound to the rest of the token, nothing else being read or bound.
C8_ShortCluster ==
    (step.read /\ step.parse_options /\ is_cluster(step.token)) =>
        LET name == str_from(step.token, 1) IN
        /\ (\A i \in 1..Len(name) : no_value_shortcut(definition, name[i])) =>
              Left = iterate(definition,
                             [tokens |-> [i \in 1..Len(name) |-> <<"-", name[i]>>] \o step.tokens,
                              arguments |-> step.arguments, options |-> step.options,
                              parse_options |-> TRUE, error |-> None],
                             Len(name))
        /\ \A k \in 0..(Len(name) - 2) :
              (/\ \A i \in 1..k : no_value_shortcut(definition, name[i])
               /\ value_shortcut(definition, name[k + 1]))
                  => /\ options = with_value(with_flags(definition, step.options, name, k),
                                             get_option_for_shortcut(definition, <<name[k + 1]>>),
                                             V_str(str_from(name, k + 1)))
                     /\ tokens = step.tokens /\ arguments = step.arguments
                     /\ error = None /\ parse_options

\* "-abc" and then "-abfVALUE" were read: aa, bb and cc are True, file is "VALUE"
C8_Witness ==
    /\ step.read /\ step.token = <<"-","a","b","f">> \o s_VALUE
    /\ options = (s_aa :> V_true @@ s_bb :> V_true @@ s_cc :> V_true
                  @@ s_file :> V_str(s_VALUE))
    /\ error = None

\* C9: "--name=value" of a declared option binds name to the text after the
\* first "=", the empty text too (appended, for an array option), and reads no
\* other token: the queue is the one that followed the token.
C9_EqualsForm ==
    (step.read /\ step.parse_options /\ startswith(step.token, t_dashdash)
       /\ str_find(step.token, "=") # -1) =>
        LET name == str_from(step.token, 2)
            pos  == str_find(name, "=")
        IN  has_option(definition, str_upto(name, pos)) =>
              /\ options = with_value(step.options, get_option(definition, str_upto(name, pos)),
                                      V_str(str_from(name, pos + 1)))
              /\ tokens = step.tokens /\ arguments = step.arguments
              /\ error = None /\ parse_options

\* "--file=" bound file to the empty text with a "-" token next in the queue
C9_Witness ==
    /\ step.read /\ step.token = t_dashdash \o s_file \o <<"=">>
    /\ definition = DefinitionTags
    /\ options = (s_file :> V_str(<<>>))
    /\ Len(tokens) > 0 /\ Head(tokens) = <<"-","a">>

\* the last iteration bound its token as a positional argument: as a new
\* argument or as the new last item of an array argument, the rest kept
bound_as_argument ==
    /\ error = None
    /\ \E n \in DOMAIN arguments :
        /\ \A m \in DOMAIN arguments \ {n} :
              m \in DOMAIN step.arguments /\ arguments[m] = step.arguments[m]
        /\ \/ n \notin DOMAIN step.arguments /\ arguments[n] = V_str(step.token)
           \/ n \notin DOMAIN step.arguments /\ arguments[n] = V_list(<<V_str(step.token)>>)
           \/ /\ n \in DOMAIN step.arguments /\ step.arguments[n].t = "list"
              /\ arguments[n] = V_list(Append(step.arguments[n].items, V_str(step.token)))

\* C10: the first "--" read with option parsing on binds nothing and turns
\* option parsing off; from then on it stays off and every token, "-x" and
\* "--" included, binds no option and is bound as a positional argument (or is
\* one argument too many).
C10_Terminator ==
    /\ (step.read /\ step.parse_options /\ step.token = t_dashdash) =>
          /\ ~parse_options /\ error = None
          /\ options = step.options /\ arguments = step.arguments /\ tokens = step.tokens
    /\ (step.read /\ ~step.parse_options) =>
          /\ ~parse_options
          /\ options = step.options /\ tokens = step.tokens
          /\ bound_as_argument \/ (error = "too_many_arguments" /\ arguments = step.arguments)

\* "--", "-x", "--" were read: "-x" is the name and the second "--" a tag
C10_Witness ==
    /\ step.read /\ ~step.parse_options /\ step.token = t_dashdash
    /\ arguments = (s_name :> V_str(<<"-","x">>) @@ s_tags :> V_list(<<V_str(t_dashdash)>>))
    /\ options = <<>>

\* the token the last iteration read took the positional path: it does not
\* start with "-", or option parsing was off
positional_step ==
    step.read /\ (~step.parse_options \/ ~startswith(step.token, <<"-">>))

\* the names of the first n argument slots of the definition
slot_names(def, n) == {def.arguments[i].name : i \in 1..n}

\* C11: the bound arguments are always the first slots of the definition, and a
\* positional token is bound to the first slot not bound yet (as the first item
\* when the slot is an array) or, every slot being bound, becomes the new last
\* item of the trailing array slot, the other slots kept.
C11_PositionalOrder ==
    /\ \E n \in 0..Len(definition.arguments) : DOMAIN arguments = slot_names(definition, n)
    /\ (positional_step /\ error = None) =>
          LET c == Cardinality(DOMAIN step.arguments)
              n == Len(definition.arguments)
          IN  IF c < n
              THEN arguments = dict_set(step.arguments, definition.arguments[c + 1].name,
                                        IF definition.arguments[c + 1].array
                                        THEN V_list(<<V_str(step.token)>>)
                                        ELSE V_str(step.token))
              ELSE /\ definition.arguments[n].array
                   /\ arguments =
                        dict_set(step.arguments, definition.arguments[n].name,
                                 V_list(Append(step.arguments[definition.arguments[n].name].items,
                                               V_str(step.token))))

\* "alice", "red", "blue" were read: name is "alice" and tags is ["red", "blue"]
C11_Witness ==
    /\ pc = "parsed" /\ step.token = s_blue
    /\ arguments = (s_name :> V_str(s_alice)
                    @@ s_tags :> V_list(<<V_str(s_red), V_str(s_blue)>>))

\* C12: a positional token read when every argument slot is bound and the last
\* slot is no array raises too-many-arguments and binds nothing; with a
\* definition that ends with an array slot that error is never raised.
C12_TooManyArguments ==
    LET n               == Len(definition.arguments)
        ends_with_array == n > 0 /\ definition.arguments[n].array
    IN  /\ (positional_step /\ Cardinality(DOMAIN step.arguments) = n /\ ~ends_with_array)
              => /\ pc = "raised" /\ error = "too_many_arguments"
                 /\ arguments = step.arguments /\ options = step.options
        /\ ends_with_array => error # "too_many_arguments"

\* "alice" then "red" were read with name the only slot: "red" is one too many
C12_Witness ==
    /\ definition = DefinitionFiles /\ step.read /\ step.token = s_red
    /\ step.arguments = (s_name :> V_str(s_alice))
    /\ error = "too_many_arguments"

\* C13 (as claimed): a second parse() on the same ArgvInput, over the same
\* definition, ends with the arguments and options the first one ended with.
C13_ParseTwiceIdentical ==
    (calls = 2 /\ pc \in {"parsed", "raised"}) =>
        (arguments = bound1.arguments /\ options = bound1.options)

\* C14 (as claimed): a bare "-" read with option parsing on is bound as a
\* positional argument (or is one argument too many) and raises no
\* unknown-option error.
C14_BareDashPositional ==
    (step.read /\ step.parse_options /\ step.token = <<"-">>) =>
        /\ error \notin {"shortcut_not_exist", "option_not_exist"}
        /\ bound_as_argument \/ (error = "too_many_arguments" /\ arguments = step.arguments)

\* the raw token names one of the values: it is the value or the value, "="
\* and a text
names_value(token, values) ==
    \E i \in 1..Len(values) : token = values[i] \/ startswith(token, values[i] \o <<"=">>)

\* C15 (as claimed): get_parameter_option(values, default) returns, for the
\* first raw token that names one of the values, the text after "=" when the
\* token holds one and else the raw token that follows; default when no token
\* names a value; and it leaves the raw tokens as it found them.
C15_ParameterOption ==
    (scan.called /\ pc = "constructed") =>
        LET S == {i \in 1..Len(scan.before) : names_value(scan.before[i], scan.values)} IN
        /\ tokens = scan.before
        /\ IF S = {} THEN scan.error = None /\ scan.result = V_false
           ELSE LET i   == CHOOSE i \in S : \A j \in S : i <= j
                    pos == str_find(scan.before[i], "=")
                IN  IF pos # -1
                    THEN scan.error = None
                         /\ scan.result = V_str(str_from(scan.before[i], pos + 1))
                    ELSE i < Len(scan.before) =>
                             (scan.error = None /\ scan.result = V_str(scan.before[i + 1]))

\* the last call asked for the alternatives of a name
is_alternatives == ret.op = "find_alternative_commands"

\* the registered primary names that qualify as a suggestion for name
qualifying(name) ==
    {n \in registered_names :
        3 * distance(name, n) <= Len(name) \/ \E i \in 0..Len(n) : startswith(str_from(n, i), name)}

\* C16: when some registered command name qualifies for the query (its edit
\* distance is at most a third of the query's length, or it contains the
\* query), the result lists exactly the qualifying names, each once, in a
\* non-decreasing order of distance; "hlp" gives "help" and "zzzzzzzzzz" gives
\* nothing with "help" registered.
C16_Alternatives ==
    is_alternatives =>
        LET alts == ret.alternatives
            Q    == qualifying(ret.name)
        IN  /\ Q # {} =>
                  /\ {alts[i] : i \in 1..Len(alts)} = Q
                  /\ Len(alts) = Cardinality(Q)
                  /\ \A i, j \in 1..Len(alts) :
                        i < j => distance(ret.name, alts[i]) <= distance(ret.name, alts[j])
            /\ (ret.name = s_hlp /\ s_help \in registered_names) => alts = <<s_help>>
            /\ ret.name = s_zzzzzzzzzz => alts = <<>>

\* "d" was asked for with "zed", "db:seed" and "db:migrate" registered: the
\* three contain it and are listed by distance 2, 6, 9
C16_Witness ==
    /\ is_alternatives /\ ret.name = <<"d">>
    /\ ret.alternatives = <<s_zed, s_db_seed, s_db_migrate>>

\* the keys add registers a command under: its name and its aliases
keys_of(c) == {get_name(c)} \cup {get_aliases(c)[i] : i \in 1..Len(get_aliases(c))}

\* C17: add(c) of a disabled command leaves the registry as it was, returns no
\* command and leaves c attached to no application; add(c) of an enabled command
\* returns c and makes c the entry under its name and under each of its aliases,
\* whatever was registered there, every other entry kept.
C17_AddFrame ==
    [][\A c \in CommandIds :
          (ret'.op = "add" /\ ret'.name = get_name(c)) =>
              /\ attached' \ {c} = attached \ {c}
              /\ IF ~is_enabled(c)
                 THEN commands' = commands /\ ret'.cmd = None /\ c \notin attached'
                 ELSE /\ ret'.cmd = c /\ c \in attached'
                      /\ DOMAIN commands' = DOMAIN commands \cup keys_of(c)
                      /\ \A k \in keys_of(c) : commands'[k] = c
                      /\ \A k \in DOMAIN commands \ keys_of(c) : commands'[k] = commands[k]]_vars

\* "zed", whose alias is "a:b", was added after the command named "a:b": the
\* key "a:b" now holds "zed", the alias "x" still holds the command "a:b"
C17_Witness ==
    /\ ret.op = "add" /\ ret.name = s_zed /\ ret.cmd = "zed"
    /\ s_x \in DOMAIN commands /\ commands[s_x] = "ab"
    /\ commands[s_a_b] = "zed"

\* the disabled command was added: no key "off", no application attached
C17_WitnessDisabled ==
    /\ ret.op = "add" /\ ret.name = s_off /\ ret.cmd = None
    /\ s_off \notin DOMAIN commands /\ "off" \notin attached

\* C18: a dispatch whose raw tokens hold --help or -h and a name that resolves
\* returns the registered help command, set to describe the resolved command,
\* with the wants-help flag cleared; the lookup of the same name that follows
\* returns the plain command.
C18_HelpConsumedOnce ==
    [][/\ (ret'.op = "do_run" /\ do_run_wants_help(ret'.argv) /\ ret'.kind = "ok") =>
              /\ ret'.key \in DOMAIN commands'
              /\ ret'.cmd = commands'[s_help]
              /\ help_target' = commands'[ret'.key]
              /\ ~want_helps'
       /\ ( /\ ret.op = "do_run" /\ do_run_wants_help(ret.argv) /\ ret.kind = "ok"
            /\ ret'.op = "find" /\ ret'.name = ret.name ) =>
              /\ ret'.kind = "ok"
              /\ ret'.cmd = commands[ret.key]
              /\ ~want_helps']_vars

C18_Witness ==
    /\ ret.op = "do_run" /\ ret.argv = <<s_li, t_h>> /\ ret.kind = "ok"
    /\ ret.key = s_list /\ ret.cmd = "help"
    /\ help_target = "list" /\ ~want_helps

\* C19: after a dispatch whose raw tokens hold --quiet/-q, --verbose/-v or
\* --no-interaction/-n, the verbosity is the one asked for and the input the
\* command runs with is not interactive, whether or not a name was given.
C19_OptionsApplied ==
    ret.op = "do_run" =>
        /\ has_parameter_option(ret.argv, {t_quiet, t_q}) => ret.verbosity = "quiet"
        /\ ( /\ ~has_parameter_option(ret.argv, {t_quiet, t_q})
             /\ has_parameter_option(ret.argv, {t_verbose, t_v}) ) => ret.verbosity = "verbose"
        /\ has_parameter_option(ret.argv, {t_no_interaction, t_n}) => ~ret.interactive

\* C20: when run() of a command attached to an application reaches its bind
\* step, the definition handed to bind has the application's arguments ahead of
\* the command's own and the application's options added to its own, and the
\* merge has been applied exactly once.
C20_MergedAtBind ==
    (cmd_ret.op = "run" /\ cmd_application) =>
        /\ cmd_ret.bind = << [arguments |-> ApplicationDefinition.arguments \o native.arguments,
                              options   |-> native.options \cup ApplicationDefinition.options] >>
        /\ merges = 1

\* C25: when a dispatch has ended, by returning or by raising, __want_helps is
\* False, so that no later lookup returns the help command for a plain name.
C25_FlagClearedAfterDispatch ==
    ret.op = "do_run" => ~want_helps

\* the colon segments of a are the first segments of b
is_segment_prefix(a, b) ==
    LET pa == split(a, ":")
        pb == split(b, ":")
    IN  Len(pa) <= Len(pb) /\ SubSeq(pb, 1, Len(pa)) = pa

\* C26: a namespace find_namespace returns is, or is a colon-segment prefix of,
\* the namespace of some registered command name or alias.
C26_NamespaceExists ==
    (ret.op = "find_namespace" /\ ret.kind = "ok") =>
        \E n \in get_namespaces(commands) : is_segment_prefix(ret.key, n)

\* C27: after a bind, an option declared to accept no value is unbound or bound
\* to True, whatever token named it and whatever token follows it.
C27_FlagIsTrue ==
    pc \in {"parsed", "raised"} =>
        \A o \in definition.options :
            (o.mode = "none" /\ o.name \in DOMAIN options) => options[o.name] = V_true

\* C23: with auto-exit enabled, the status handed to exit for an integer status
\* code a command returned is within 0..255.
C23_ExitStatusInRange ==
    (run_ret.outcome = "exit" /\ run_ret.dispatch = "return" /\ run_ret.status # <<>>) =>
        run_ret.status[1] \in 0..255

\* C24: with exception catching on, an exception raised during the dispatch is
\* rendered once and the run ends with a non-zero status, 1 unless the
\* exception carries a numeric code; with catching off it is re-raised,
\* nothing is rendered and no exit is performed.
C24_ExceptionBoundary ==
    run_ret.dispatch = "raise" =>
        IF run_ret.catch
        THEN /\ run_ret.rendered = 1
             /\ run_ret.outcome \in {"exit", "return"}
             /\ run_ret.status # <<>> /\ run_ret.status[1] # 0
             /\ (~run_ret.exc.has_errno \/ run_ret.exc.errno = <<>>) => run_ret.status = <<1>>
        ELSE /\ run_ret.outcome = "raise"
             /\ run_ret.rendered = 0

\* C21: when a command that ignores validation errors is run and bind raises,
\* the error is swallowed and the body is executed with what was bound before
\* the error, wherever the offending token stands.
C21_BodyRunsAfterBindError ==
    (cmd_ret.op = "run" /\ cmd_ret.ignore /\ cmd_ret.bind_error # None) =>
        /\ cmd_ret.outcome = "return"
        /\ \E i \in 1..Len(cmd_ret.trace) : cmd_ret.trace[i] = "body"

\* the number of times step s stands in the trace t
times(t, s) == Cardinality({i \in 1..Len(t) : t[i] = s})

\* C22: in a run the body is invoked at most once, and only after merge, bind,
\* initialize, interact (only for an interactive input) and validate, in that
\* order and with no error left unswallowed; when the command does not ignore
\* validation errors, a binding error means initialize, interact and the body
\* are not invoked; a required argument left unbound means the body is not
\* invoked.
C22_BodyAfterValidate ==
    cmd_ret.op = "run" =>
        LET def == input_definition(cmd_ret.bind[1])
            t == cmd_ret.trace
        IN  /\ times(t, "body") <= 1
            /\ times(t, "body") = 1 =>
                  /\ t = <<"merge_application_definition", "bind", "initialize">>
                             \o (IF cmd_ret.interactive THEN <<"interact">> ELSE <<>>)
                             \o <<"validate", "body">>
                  /\ cmd_ret.bind_error = None \/ cmd_ret.ignore
                  /\ validate(def, cmd_ret.arguments)
                  /\ cmd_ret.outcome = "return"
            /\ (cmd_ret.bind_error # None /\ ~cmd_ret.ignore) =>
                  /\ times(t, "initialize") + times(t, "interact") + times(t, "body") = 0
                  /\ cmd_ret.outcome = "raise" /\ cmd_ret.error = cmd_ret.bind_error
            /\ ~validate(def, cmd_ret.arguments) =>
                  times(t, "body") = 0 /\ cmd_ret.outcome = "raise"

\* an attached command was run on an interactive input and its body invoked
C22_Witness ==
    /\ cmd_ret.op = "run" /\ cmd_application /\ cmd_ret.interactive
    /\ cmd_ret.trace = <<"merge_application_definition", "bind", "initialize", "interact",
                         "validate", "body">>
    /\ DOMAIN cmd_ret.arguments = {s_command, s_name}

\* a run whose required argument was left unbound ended in validate
C22_WitnessNotEnough ==
    /\ cmd_ret.op = "run" /\ cmd_ret.bind_error = None
    /\ cmd_ret.error = "not_enough_arguments"
    /\ cmd_ret.trace[Len(cmd_ret.trace)] = "validate"

====
